---- MODULE Spec2Model ----
(***************************************************************************)
(* State machine of the shop front end: the AppProvider store (catalog,    *)
(* filter, like/dislike preferences, view selector), its localStorage      *)
(* persistence and the start-up catalog load; a second tab on the same     *)
(* localStorage; and the stand-alone component of src/src/App.js.          *)
(*                                                                         *)
(* Rendering model (React 18, README "Framework: Next.js 14 (React 18)"):  *)
(* the state updates of one event handler or of one continuation of the    *)
(* async loader are batched into one commit, and the persist effects of a  *)
(* commit caused by a click run before the next event is handled.  One     *)
(* action of this module is therefore one handler together with the        *)
(* effects its commit triggers.                                            *)
(***************************************************************************)
EXTENDS Integers, Sequences, FiniteSets, TLC

\* ------------------------------------------------------------------ bounds
MaxId == 2          \* product identifiers the toggles are called with: 1..MaxId
MaxTimers == 1      \* pending setTimeout callbacks kept at once

Ids == 1..MaxId

\* ------------------------------------------------------------ JS helpers
\* Array.prototype.includes
includes(arr, x) == \E i \in 1..Len(arr) : arr[i] = x

\* prev.filter(id => id !== productId)
without(arr, x) == SelectSeq(arr, LAMBDA e : e # x)

\* [...prev, productId]
appendedInFront(arr, x) == <<x>> \o arr
appended(arr, x) == Append(arr, x)

\* ------------------------------------------------------------------ JSON
\* A stored text is a sequence of one-character strings.
DigitChars == <<"0", "1", "2", "3", "4", "5", "6", "7", "8", "9">>
IsDigit(c) == \E i \in 1..10 : DigitChars[i] = c
DigitVal(c) == (CHOOSE i \in 1..10 : DigitChars[i] = c) - 1

RECURSIVE NumberText(_)
NumberText(n) ==
    IF n < 10 THEN <<DigitChars[n + 1]>>
    ELSE NumberText(n \div 10) \o <<DigitChars[(n % 10) + 1]>>

RECURSIVE JoinNumbers(_)
JoinNumbers(arr) ==
    IF arr = <<>> THEN <<>>
    ELSE IF Len(arr) = 1 THEN NumberText(arr[1])
    ELSE NumberText(arr[1]) \o <<",">> \o JoinNumbers(Tail(arr))

RECURSIVE ConcatNumbers(_)
ConcatNumbers(arr) ==
    IF arr = <<>> THEN <<>> ELSE NumberText(arr[1]) \o ConcatNumbers(Tail(arr))

\* A stringify that leaves out the separators: "[12]"
JSON_stringifyNoCommas(arr) == <<"[">> \o ConcatNumbers(arr) \o <<"]">>

\* JSON.stringify of an array of non-negative integers: "[1,2]"
JSON_stringify(arr) == <<"[">> \o JoinNumbers(arr) \o <<"]">>

\* JSON.parse restricted to the grammar of arrays of non-negative integers
\* with optional blanks.  st is the parser state, acc the elements read so
\* far, cur the number being read.  Returns [ok, val]; ok = FALSE stands for
\* the SyntaxError JSON.parse throws.
RECURSIVE ParseFrom(_, _, _, _, _)
ParseFrom(s, i, st, acc, cur) ==
    IF i > Len(s) THEN [ok |-> st = "end", val |-> acc]
    ELSE LET c == s[i] IN
      CASE st = "start" ->
             IF c = " " THEN ParseFrom(s, i + 1, "start", acc, cur)
             ELSE IF c = "[" THEN ParseFrom(s, i + 1, "open", acc, cur)
             ELSE [ok |-> FALSE, val |-> <<>>]
        [] st \in {"open", "comma"} ->
             IF c = " " THEN ParseFrom(s, i + 1, st, acc, cur)
             ELSE IF c = "]" /\ st = "open" THEN ParseFrom(s, i + 1, "end", acc, cur)
             ELSE IF c = "0" THEN ParseFrom(s, i + 1, "postnum", Append(acc, 0), 0)
             ELSE IF IsDigit(c) THEN ParseFrom(s, i + 1, "num", acc, DigitVal(c))
             ELSE [ok |-> FALSE, val |-> <<>>]
        [] st = "num" ->
             IF IsDigit(c) THEN ParseFrom(s, i + 1, "num", acc, cur * 10 + DigitVal(c))
             ELSE IF c = " " THEN ParseFrom(s, i + 1, "postnum", Append(acc, cur), 0)
             ELSE IF c = "," THEN ParseFrom(s, i + 1, "comma", Append(acc, cur), 0)
             ELSE IF c = "]" THEN ParseFrom(s, i + 1, "end", Append(acc, cur), 0)
             ELSE [ok |-> FALSE, val |-> <<>>]
        [] st = "postnum" ->
             IF c = " " THEN ParseFrom(s, i + 1, "postnum", acc, cur)
             ELSE IF c = "," THEN ParseFrom(s, i + 1, "comma", acc, cur)
             ELSE IF c = "]" THEN ParseFrom(s, i + 1, "end", acc, cur)
             ELSE [ok |-> FALSE, val |-> <<>>]
        [] OTHER ->
             IF c = " " THEN ParseFrom(s, i + 1, "end", acc, cur)
             ELSE [ok |-> FALSE, val |-> <<>>]

JSON_parse(text) == ParseFrom(text, 1, "start", <<>>, 0)

\* --------------------------------------------------------- localStorage
\* localStorage.getItem returns null for a key that was never set.
Absent == [present |-> FALSE, text |-> <<>>]
Stored(text) == [present |-> TRUE, text |-> text]

Keys == {"likedProducts", "dislikedProducts"}

\* useState(() => { const saved = localStorage.getItem(key);
\*                  return saved ? JSON.parse(saved) : []; })
\* null and the empty string are falsy.
restore(saved) ==
    IF ~saved.present \/ saved.text = <<>> THEN [ok |-> TRUE, val |-> <<>>]
    ELSE JSON_parse(saved.text)

\* localStorage.setItem(key, JSON.stringify(value))
persist(store, key, value) == [store EXCEPT ![key] = Stored(JSON_stringify(value))]

\* -------------------------------------------------------- catalog service
\* The external catalog service: what its two read endpoints return.
Catalogs == <<
    [products   |-> << [id |-> 1, category |-> "a"], [id |-> 2, category |-> "b"] >>,
     categories |-> << "a", "b" >>],
    [products   |-> << [id |-> 2, category |-> "a"], [id |-> 1, category |-> "a"] >>,
     categories |-> << "a", "b" >>],
    [products   |-> << [id |-> 3, category |-> "a"], [id |-> 1, category |-> "b"],
                       [id |-> 2, category |-> "a"] >>,
     categories |-> << "b", "a" >>] >>

\* How a request can end: a success response with a JSON body, a success
\* response whose body is not JSON, a non-success status, a network failure.
Outcomes == {"ok", "badbody", "notok", "netfail"}

NoError == "<null>"                       \* error === null
MsgStatus == "Failed to fetch data"       \* thrown by fetchData on !res.ok
MsgNetwork == "Failed to fetch"           \* the TypeError fetch rejects with
MsgBody == "Unexpected token in JSON"     \* the SyntaxError res.json() rejects with

NullProduct == [id |-> 0, category |-> ""]    \* selectedProduct === null
Views == {"home", "products", "favorites", "detail"}

\* ------------------------------------------------------------------ state
VARIABLES
    localStorage,       \* key -> Absent or Stored(text); outlives page instances
    server,             \* index in Catalogs of what the catalog service serves
    products, categories, filteredProducts, currentFilter,
    likedProducts, dislikedProducts,
    loading, error, currentView, selectedProduct,
    reqProducts, reqCategories,   \* the two fetches: "none", "pending" or an outcome
    fetching,           \* fetchData is suspended at await Promise.all
    timers,             \* pending setTimeout callbacks, oldest first
    crashed,            \* a render threw: the tree is unmounted, the page is blank
    found,              \* history: how the instance found each key on mount, kept
                        \* until the first commit after the mount
    lastCall,           \* history: the last toggle calls of this instance
    otherTab,           \* a second page instance open on the same localStorage:
                        \* whether it is open, and its two preference arrays
    AppJs               \* the component of src/src/App.js, which is rendered on
                        \* its own: its data, the 'data' key and its fetch

vars == << localStorage, server, products, categories, filteredProducts,
           currentFilter, likedProducts, dislikedProducts, loading, error,
           currentView, selectedProduct, reqProducts, reqCategories, fetching,
           timers, crashed, found, lastCall, otherTab, AppJs >>

\* How a key's stored value presents itself to the initializer that reads it.
foundAs(saved) ==
    IF ~saved.present THEN "absent"
    ELSE IF saved.text = <<>> THEN "empty"
    ELSE IF JSON_parse(saved.text).ok THEN "json"
    ELSE "garbage"

\* The preference of one identifier, read off the two arrays.  "BOTH" is no
\* state of the store's state machine; it names an identifier held by both.
PrefState(liked, disliked, id) ==
    IF includes(liked, id) /\ includes(disliked, id) THEN "BOTH"
    ELSE IF includes(liked, id) THEN "LIKED"
    ELSE IF includes(disliked, id) THEN "DISLIKED"
    ELSE "NEUTRAL"

NoCall == [op |-> "none", id |-> 0, before |-> "NEUTRAL",
           prior |-> "none", priorBefore |-> "NEUTRAL"]

\* No second page instance is open.
ClosedTab == [open |-> FALSE, liked |-> <<>>, disliked |-> <<>>]

\* ------------------------------------------------------------- AppProvider
\* The two lazy useState initializers of likedProducts and dislikedProducts,
\* in declaration order, followed by the two persist effects, which run once
\* on mount.  An initializer that throws aborts the first render: nothing is
\* mounted, no effect runs, and no instance state exists (the sets are shown
\* as empty sequences in a crashed state).
AppProviderOneKey(store) ==
    LET l == restore(store["likedProducts"])
        d == restore(store["likedProducts"])
        up == l.ok /\ d.ok
        liked == IF up THEN l.val ELSE <<>>
        disliked == IF up THEN d.val ELSE <<>>
    IN  [ crashed  |-> ~up,
          liked    |-> liked,
          disliked |-> disliked,
          store    |-> IF up
                       THEN persist(persist(store, "likedProducts", liked),
                                    "dislikedProducts", disliked)
                       ELSE store ]
AppProvider(store) ==
    LET l == restore(store["likedProducts"])
        d == restore(store["dislikedProducts"])
        up == l.ok /\ d.ok
        liked == IF up THEN l.val ELSE <<>>
        disliked == IF up THEN d.val ELSE <<>>
    IN  [ crashed  |-> ~up,
          liked    |-> liked,
          disliked |-> disliked,
          store    |-> IF up
                       THEN persist(persist(store, "likedProducts", liked),
                                    "dislikedProducts", disliked)
                       ELSE store ]

\* The state of a page instance right after it mounted on `store`: the useState
\* defaults, the restored preferences, and the two catalog requests issued by
\* the mount effect (fetchData up to its await Promise.all).
FreshInstance(store) ==
    LET a == AppProvider(store) IN
    [ localStorage     |-> a.store,
      likedProducts    |-> a.liked,
      dislikedProducts |-> a.disliked,
      crashed          |-> a.crashed,
      request          |-> IF a.crashed THEN "none" ELSE "pending",
      fetching         |-> ~a.crashed ]

Mounted(store) ==
    LET f == FreshInstance(store) IN
    /\ localStorage = f.localStorage
    /\ likedProducts = f.likedProducts
    /\ dislikedProducts = f.dislikedProducts
    /\ crashed = f.crashed
    /\ products = <<>>
    /\ categories = <<>>
    /\ filteredProducts = <<>>
    /\ currentFilter = "all"
    /\ loading = TRUE
    /\ error = NoError
    /\ currentView = "home"
    /\ selectedProduct = NullProduct
    /\ reqProducts = f.request
    /\ reqCategories = f.request
    /\ fetching = f.fetching
    /\ timers = <<>>
    /\ found = [k \in Keys |-> foundAs(store[k])]
    /\ lastCall = NoCall
    /\ otherTab = ClosedTab

\* A browser profile that never ran the application.
EmptyStorage == [k \in Keys |-> Absent]

\* Texts a preference key may hold when the page is opened: written by an
\* earlier instance, edited by hand, or damaged.
StoredTexts == {
    <<>>,
    <<" ", "[", "1", " ", "]">>,
    <<"[", "2", ",", " ", "1", "]">>,
    <<"[">>,
    <<"[", "1", ",", "]">> }

StoredValues == {Absent} \cup {Stored(t) : t \in StoredTexts}

\* The component of src/src/App.js is not rendered.
NotRendered == [data |-> <<>>, storedData |-> Absent, crashed |-> FALSE,
                request |-> "none", response |-> [ok |-> FALSE, body |-> <<>>]]

Init ==
    /\ server \in 1..Len(Catalogs)
    /\ Mounted(EmptyStorage)
    /\ AppJs = NotRendered

InitAnyStorage ==
    /\ server = 1
    /\ \E store \in [Keys -> StoredValues] : Mounted(store)
    /\ AppJs = NotRendered

\* App renders the header and the views only when it is neither loading nor
\* in the error state; before that no handler of the store can be reached.
Interactive == ~crashed /\ ~loading /\ error = NoError

\* ------------------------------------------------------------ page reload
\* window.location.reload() or the browser's own reload: the instance is discarded with its timers and pending
\* requests, and a new one mounts on what localStorage holds.
ReloadKeepsView ==
    LET f == FreshInstance(localStorage) IN
    /\ localStorage' = f.localStorage
    /\ likedProducts' = f.likedProducts
    /\ dislikedProducts' = f.dislikedProducts
    /\ crashed' = f.crashed
    /\ products' = <<>>
    /\ categories' = <<>>
    /\ filteredProducts' = <<>>
    /\ loading' = TRUE
    /\ error' = NoError
    /\ reqProducts' = f.request
    /\ reqCategories' = f.request
    /\ fetching' = f.fetching
    /\ timers' = <<>>
    /\ found' = [k \in Keys |-> foundAs(localStorage[k])]
    /\ lastCall' = NoCall
    /\ UNCHANGED << server, currentView, selectedProduct, currentFilter, otherTab, AppJs >>
Reload ==
    LET f == FreshInstance(localStorage) IN
    /\ localStorage' = f.localStorage
    /\ likedProducts' = f.likedProducts
    /\ dislikedProducts' = f.dislikedProducts
    /\ crashed' = f.crashed
    /\ products' = <<>>
    /\ categories' = <<>>
    /\ filteredProducts' = <<>>
    /\ currentFilter' = "all"
    /\ loading' = TRUE
    /\ error' = NoError
    /\ currentView' = "home"
    /\ selectedProduct' = NullProduct
    /\ reqProducts' = f.request
    /\ reqCategories' = f.request
    /\ fetching' = f.fetching
    /\ timers' = <<>>
    /\ found' = [k \in Keys |-> foundAs(localStorage[k])]
    /\ lastCall' = NoCall
    /\ UNCHANGED << server, otherTab, AppJs >>

\* The "Try Again" button of ErrorState, which App renders in place of the
\* views when loading is over and error is set: window.location.reload().
RetryWhileLoading ==
    /\ ~crashed
    /\ Reload
Retry ==
    /\ ~crashed /\ ~loading /\ error # NoError
    /\ Reload
\* ------------------------------------------------------------- fetchData
\* Where fetchData stands once the two requests are in states rp and rc:
\* Promise.all rejects as soon as one fetch rejects and resolves when both
\* have a response; then the status check, then the two body parses.
fetchDataPartial(rp, rc) ==
    IF rp = "ok" THEN [settled |-> TRUE, error |-> NoError]
    ELSE IF rp = "pending" THEN [settled |-> FALSE, error |-> NoError]
    ELSE [settled |-> TRUE, error |-> MsgStatus]
fetchDataIgnoresStatus(rp, rc) ==
    IF rp = "netfail" \/ rc = "netfail" THEN [settled |-> TRUE, error |-> MsgNetwork]
    ELSE IF rp = "pending" \/ rc = "pending" THEN [settled |-> FALSE, error |-> NoError]
    ELSE IF rp = "badbody" \/ rc = "badbody" THEN [settled |-> TRUE, error |-> MsgBody]
    ELSE [settled |-> TRUE, error |-> NoError]
fetchData(rp, rc) ==
    IF rp = "netfail" \/ rc = "netfail" THEN [settled |-> TRUE, error |-> MsgNetwork]
    ELSE IF rp = "pending" \/ rc = "pending" THEN [settled |-> FALSE, error |-> NoError]
    ELSE IF rp = "notok" \/ rc = "notok" THEN [settled |-> TRUE, error |-> MsgStatus]
    ELSE IF rp = "badbody" \/ rc = "badbody" THEN [settled |-> TRUE, error |-> MsgBody]
    ELSE [settled |-> TRUE, error |-> NoError]

\* await res.json(): the data a response carries; a request that has not
\* answered with a JSON body carries none.
body(r, data) == IF r = "ok" THEN data ELSE <<>>

\* What `found` holds once the mount is over.
Forgotten == [k \in Keys |-> "forgotten"]

\* The continuation of fetchData after its await, as one commit: on success
\* setProducts, setCategories, setFilteredProducts; on a throw setError; and
\* in both cases setLoading(false) from the finally block.  It is the first
\* commit after the mount.
ContinueWithoutFinally(rp, rc) ==
    LET r == fetchData(rp, rc) IN
    IF fetching /\ r.settled
    THEN /\ fetching' = FALSE
         /\ found' = Forgotten
         /\ error' = r.error
         /\ IF r.error = NoError
            THEN /\ loading' = FALSE
                 /\ products' = body(rp, Catalogs[server].products)
                 /\ categories' = body(rc, Catalogs[server].categories)
                 /\ filteredProducts' = body(rp, Catalogs[server].products)
            ELSE UNCHANGED << loading, products, categories, filteredProducts >>
    ELSE UNCHANGED << fetching, found, loading, error, products, categories,
                      filteredProducts >>
Continue(rp, rc) ==
    LET r == fetchData(rp, rc) IN
    IF fetching /\ r.settled
    THEN /\ fetching' = FALSE
         /\ found' = Forgotten
         /\ loading' = FALSE
         /\ error' = r.error
         /\ IF r.error = NoError
            THEN /\ products' = body(rp, Catalogs[server].products)
                 /\ categories' = body(rc, Catalogs[server].categories)
                 /\ filteredProducts' = body(rp, Catalogs[server].products)
            ELSE UNCHANGED << products, categories, filteredProducts >>
    ELSE UNCHANGED << fetching, found, loading, error, products, categories,
                      filteredProducts >>

\* The products request ends with outcome o.
ProductsResponseResetsPreferences(o) ==
    /\ reqProducts = "pending"
    /\ reqProducts' = o
    /\ Continue(o, reqCategories)
    /\ likedProducts' = <<>>
    /\ localStorage' = persist(localStorage, "likedProducts", <<>>)
    /\ UNCHANGED << server, currentFilter, dislikedProducts, currentView,
                    selectedProduct, reqCategories, timers, crashed, lastCall, otherTab, AppJs >>
ProductsResponse(o) ==
    /\ reqProducts = "pending"
    /\ reqProducts' = o
    /\ Continue(o, reqCategories)
    /\ UNCHANGED << localStorage, server, currentFilter, likedProducts,
                    dislikedProducts, currentView, selectedProduct, reqCategories,
                    timers, crashed, lastCall, otherTab, AppJs >>

\* The categories request ends with outcome o.
CategoriesResponse(o) ==
    /\ reqCategories = "pending"
    /\ reqCategories' = o
    /\ Continue(reqProducts, o)
    /\ UNCHANGED << localStorage, server, currentFilter, likedProducts,
                    dislikedProducts, currentView, selectedProduct, reqProducts,
                    timers, crashed, lastCall, otherTab, AppJs >>

\* ------------------------------------------------------- preference store
\* toggleLike as a function of the two arrays: the updater passed to
\* setLikedProducts and the setDislikedProducts it calls in its else branch.
\* dislikedSet tells whether setDislikedProducts was called (the filter
\* always returns a new array, so the disliked persist effect then runs).
toggleLikeKeepsDislike(liked, disliked, productId) ==
    IF includes(liked, productId)
    THEN [liked |-> without(liked, productId), disliked |-> disliked,
          likedSet |-> TRUE, dislikedSet |-> FALSE]
    ELSE [liked |-> appended(liked, productId), disliked |-> disliked,
          likedSet |-> TRUE, dislikedSet |-> FALSE]
toggleLikeAlwaysAdds(liked, disliked, productId) ==
    [liked |-> appended(without(liked, productId), productId),
     disliked |-> without(disliked, productId),
     likedSet |-> TRUE, dislikedSet |-> TRUE]
toggleLike(liked, disliked, productId) ==
    IF includes(liked, productId)
    THEN [liked |-> without(liked, productId), disliked |-> disliked,
          likedSet |-> TRUE, dislikedSet |-> FALSE]
    ELSE [liked |-> appended(liked, productId),
          disliked |-> without(disliked, productId),
          likedSet |-> TRUE, dislikedSet |-> TRUE]

\* toggleDislike: the updater passed to setDislikedProducts and the
\* setLikedProducts it calls in its else branch.
toggleDislikeClearsLiked(liked, disliked, productId) ==
    IF includes(disliked, productId)
    THEN [liked |-> liked, disliked |-> without(disliked, productId),
          likedSet |-> FALSE, dislikedSet |-> TRUE]
    ELSE [liked |-> <<>>,
          disliked |-> appended(disliked, productId),
          likedSet |-> TRUE, dislikedSet |-> TRUE]
toggleDislikeKeepsLike(liked, disliked, productId) ==
    IF includes(disliked, productId)
    THEN [liked |-> liked, disliked |-> without(disliked, productId),
          likedSet |-> FALSE, dislikedSet |-> TRUE]
    ELSE [liked |-> liked, disliked |-> appended(disliked, productId),
          likedSet |-> FALSE, dislikedSet |-> TRUE]
toggleDislike(liked, disliked, productId) ==
    IF includes(disliked, productId)
    THEN [liked |-> liked, disliked |-> without(disliked, productId),
          likedSet |-> FALSE, dislikedSet |-> TRUE]
    ELSE [liked |-> without(liked, productId),
          disliked |-> appended(disliked, productId),
          likedSet |-> TRUE, dislikedSet |-> TRUE]

\* The two persist effects after a commit: each runs when its dependency
\* (the array it persists) was set to a new array.
persistEffectsLikedOnly(store, r) ==
    IF r.likedSet THEN persist(store, "likedProducts", r.liked) ELSE store
persistEffects(store, r) ==
    LET s1 == IF r.likedSet THEN persist(store, "likedProducts", r.liked) ELSE store
    IN  IF r.dislikedSet THEN persist(s1, "dislikedProducts", r.disliked) ELSE s1

\* History of the last toggle call: the operation, the identifier, the
\* preference state the identifier was in when the call was made and, when the
\* toggle call before it was on the same identifier, that call and the state
\* it found.
Called(op, productId) ==
    [op |-> op, id |-> productId,
     before |-> PrefState(likedProducts, dislikedProducts, productId),
     prior |-> IF lastCall.id = productId THEN lastCall.op ELSE "none",
     priorBefore |-> IF lastCall.id = productId THEN lastCall.before ELSE "NEUTRAL"]

\* The like button of a product card or of the detail view.
ToggleLike(productId) ==
    /\ Interactive
    /\ LET r == toggleLike(likedProducts, dislikedProducts, productId) IN
       /\ likedProducts' = r.liked
       /\ dislikedProducts' = r.disliked
       /\ localStorage' = persistEffects(localStorage, r)
    /\ lastCall' = Called("toggleLike", productId)
    /\ UNCHANGED << server, products, categories, filteredProducts, currentFilter,
                    loading, error, currentView, selectedProduct, reqProducts,
                    reqCategories, fetching, timers, crashed, found, otherTab, AppJs >>

\* The dislike button of a product card or of the detail view.
ToggleDislike(productId) ==
    /\ Interactive
    /\ LET r == toggleDislike(likedProducts, dislikedProducts, productId) IN
       /\ likedProducts' = r.liked
       /\ dislikedProducts' = r.disliked
       /\ localStorage' = persistEffects(localStorage, r)
    /\ lastCall' = Called("toggleDislike", productId)
    /\ UNCHANGED << server, products, categories, filteredProducts, currentFilter,
                    loading, error, currentView, selectedProduct, reqProducts,
                    reqCategories, fetching, timers, crashed, found, otherTab, AppJs >>

\* ------------------------------------------------------ filter and views
\* products.filter(p => p.category === category), or products for 'all'
filteredFirstOnly(prods, category) ==
    IF category = "all" THEN prods
    ELSE LET hits == SelectSeq(prods, LAMBDA p : p.category = category)
         IN  IF hits = <<>> THEN <<>> ELSE <<hits[1]>>
filtered(prods, category) ==
    IF category = "all" THEN prods
    ELSE SelectSeq(prods, LAMBDA p : p.category = category)

\* filterProducts(category), called from a render whose products were prods
filterProductsOfDisplayed(category, prods) ==
    /\ currentFilter' = category
    /\ filteredProducts' = filtered(filteredProducts, category)
filterProducts(category, prods) ==
    /\ currentFilter' = category
    /\ filteredProducts' = filtered(prods, category)

\* navigateTo(view, product = null); scrolling is not modelled
navigateToDropsProduct(view, product) ==
    /\ currentView' = view
    /\ selectedProduct' = NullProduct
navigateToKeepsProduct(view, product) ==
    /\ currentView' = view
    /\ selectedProduct' = (IF product = NullProduct THEN selectedProduct ELSE product)
navigateTo(view, product) ==
    /\ currentView' = view
    /\ selectedProduct' = product

Elements(seq) == {seq[i] : i \in 1..Len(seq)}

\* FavoritesView: products.filter(p => likedProducts.includes(p.id))
favoriteProducts == SelectSeq(products, LAMBDA p : includes(likedProducts, p.id))

\* Header buttons (home, products, favorites), the hero button and the back
\* buttons of the favorites and detail views: navigateTo(view).
Navigate(view) ==
    /\ Interactive
    /\ view \in {"home", "products", "favorites"}
    /\ navigateTo(view, NullProduct)
    /\ UNCHANGED << localStorage, server, products, categories, filteredProducts,
                    currentFilter, likedProducts, dislikedProducts, loading, error,
                    reqProducts, reqCategories, fetching, timers, crashed,
                    found, lastCall, otherTab, AppJs >>

\* "View Details" of a product card; cards are rendered by ProductsView for
\* filteredProducts and by FavoritesView for favoriteProducts.
ViewDetails(product) ==
    /\ Interactive
    /\ \/ currentView = "products" /\ product \in Elements(filteredProducts)
       \/ currentView = "favorites" /\ product \in Elements(favoriteProducts)
    /\ navigateTo("detail", product)
    /\ UNCHANGED << localStorage, server, products, categories, filteredProducts,
                    currentFilter, likedProducts, dislikedProducts, loading, error,
                    reqProducts, reqCategories, fetching, timers, crashed,
                    found, lastCall, otherTab, AppJs >>

\* The filter buttons of ProductsView: 'all' and one per category.
Filter(category) ==
    /\ Interactive
    /\ currentView = "products"
    /\ category \in {"all"} \cup Elements(categories)
    /\ filterProducts(category, products)
    /\ UNCHANGED << localStorage, server, products, categories, likedProducts,
                    dislikedProducts, loading, error, currentView, selectedProduct,
                    reqProducts, reqCategories, fetching, timers, crashed,
                    found, lastCall, otherTab, AppJs >>

\* A category card of HomeView: navigateTo('products') now, and a timer that
\* will call the filterProducts of this render (its products) for the category.
CategoryCardCapturesDisplayed(category) ==
    /\ Interactive
    /\ currentView = "home"
    /\ category \in Elements(categories)
    /\ Len(timers) < MaxTimers
    /\ navigateTo("products", NullProduct)
    /\ timers' = Append(timers, [category |-> category, products |-> filteredProducts])
    /\ UNCHANGED << localStorage, server, products, categories, filteredProducts,
                    currentFilter, likedProducts, dislikedProducts, loading, error,
                    reqProducts, reqCategories, fetching, crashed, found,
                    lastCall, otherTab, AppJs >>
CategoryCard(category) ==
    /\ Interactive
    /\ currentView = "home"
    /\ category \in Elements(categories)
    /\ Len(timers) < MaxTimers
    /\ navigateTo("products", NullProduct)
    /\ timers' = Append(timers, [category |-> category, products |-> products])
    /\ UNCHANGED << localStorage, server, products, categories, filteredProducts,
                    currentFilter, likedProducts, dislikedProducts, loading, error,
                    reqProducts, reqCategories, fetching, crashed, found,
                    lastCall, otherTab, AppJs >>

\* The oldest pending timer fires.
TimerFires ==
    /\ timers # <<>>
    /\ filterProducts(Head(timers).category, Head(timers).products)
    /\ timers' = Tail(timers)
    /\ UNCHANGED << localStorage, server, products, categories, likedProducts,
                    dislikedProducts, loading, error, currentView, selectedProduct,
                    reqProducts, reqCategories, fetching, crashed, found,
                    lastCall, otherTab, AppJs >>

\* ------------------------------------------------------- a second tab
\* The state of the first page instance.  (The catalog load and the views of
\* the second instance are left out: they neither read nor write the
\* preferences or localStorage.)
firstTab == << server, products, categories, filteredProducts, currentFilter,
               likedProducts, dislikedProducts, loading, error, currentView,
               selectedProduct, reqProducts, reqCategories, fetching, timers,
               crashed, found, lastCall >>

\* The page is opened in a second tab: its AppProvider mounts on what
\* localStorage holds now.
OpenTab ==
    /\ ~otherTab.open
    /\ LET a == AppProvider(localStorage) IN
       /\ ~a.crashed
       /\ otherTab' = [open |-> TRUE, liked |-> a.liked, disliked |-> a.disliked]
       /\ localStorage' = a.store
    /\ UNCHANGED << firstTab, AppJs >>

\* The like button in the second tab.
TabToggleLike(productId) ==
    /\ otherTab.open
    /\ LET r == toggleLike(otherTab.liked, otherTab.disliked, productId) IN
       /\ otherTab' = [otherTab EXCEPT !.liked = r.liked, !.disliked = r.disliked]
       /\ localStorage' = persistEffects(localStorage, r)
    /\ UNCHANGED << firstTab, AppJs >>

\* The dislike button in the second tab.
TabToggleDislike(productId) ==
    /\ otherTab.open
    /\ LET r == toggleDislike(otherTab.liked, otherTab.disliked, productId) IN
       /\ otherTab' = [otherTab EXCEPT !.liked = r.liked, !.disliked = r.disliked]
       /\ localStorage' = persistEffects(localStorage, r)
    /\ UNCHANGED << firstTab, AppJs >>

\* The second tab is closed.
CloseTab ==
    /\ otherTab.open
    /\ otherTab' = ClosedTab
    /\ UNCHANGED << localStorage, firstTab, AppJs >>

\* ---------------------------------------------------------- specifications
Next ==
    \/ \E o \in Outcomes : ProductsResponse(o)
    \/ \E o \in Outcomes : CategoriesResponse(o)
    \/ \E id \in Ids : ToggleLike(id)
    \/ \E id \in Ids : ToggleDislike(id)
    \/ \E v \in Views : Navigate(v)
    \/ \E p \in Elements(products) : ViewDetails(p)
    \/ \E c \in {"all"} \cup Elements(categories) : Filter(c)
    \/ \E c \in Elements(categories) : CategoryCard(c)
    \/ TimerFires
    \/ Retry
    \/ Reload

\* A browser that never ran the application opens the page.
Spec == Init /\ [][Next]_vars

\* The page is opened on a browser whose preference keys hold any of
\* StoredValues.
SpecAnyStorage == InitAnyStorage /\ [][Next]_vars

\* Both catalog requests are eventually answered: a request that is pending
\* does not stay pending forever.
RequestsSettle ==
    /\ WF_vars(\E o \in Outcomes : ProductsResponse(o))
    /\ WF_vars(\E o \in Outcomes : CategoriesResponse(o))

\* The first start, with requests that are eventually answered.
SpecRequestsSettle == Init /\ [][Next]_vars /\ RequestsSettle

\* The events of two tabs on one localStorage that read or write the
\* preferences: the first tab's load, toggles and reloads, and the second
\* tab's mount, toggles and closing.
NextTwoTabs ==
    \/ \E o \in Outcomes : ProductsResponse(o)
    \/ \E o \in Outcomes : CategoriesResponse(o)
    \/ \E id \in Ids : ToggleLike(id)
    \/ \E id \in Ids : ToggleDislike(id)
    \/ Reload
    \/ OpenTab
    \/ \E id \in Ids : TabToggleLike(id)
    \/ \E id \in Ids : TabToggleDislike(id)
    \/ CloseTab

\* The first start, with a second tab that may be opened at any time.
SpecTwoTabs == Init /\ [][NextTwoTabs]_vars

\* ------------------------------------------------------- src/src/App.js
\* The component keeps data (an array of items; an item is modelled by its
\* id), restores it from the 'data' key on mount and replaces it by what
\* https://api.example.com/data returns.
\*
\* Everything outside the component.
shop == << localStorage, firstTab, otherTab >>

NoResponse == [ok |-> FALSE, body |-> <<>>]

\* Bodies a response may carry: JSON arrays as a server may format them, and
\* a body that is not JSON.
Bodies == {
    <<"[", "]">>,
    <<"[", "1", "]">>,
    <<"[", " ", "2", " ", "]">>,
    <<"[", "1", ",", "2", "]">>,
    <<"<">> }

\* The mount: useState([]), then the restore effect
\*   if (storedData) setData(JSON.parse(storedData))
\* and the fetch effect, which calls fetchData up to its first await.  A
\* restore effect that throws unmounts the tree before the fetch effect runs.
AppMounted(storedData) ==
    LET r == restore(storedData) IN
    [ data       |-> IF r.ok THEN r.val ELSE <<>>,
      storedData |-> storedData,
      crashed    |-> ~r.ok,
      request    |-> IF r.ok THEN "pending" ELSE "none",
      response   |-> NoResponse ]

\* await fetch(...) resolves: a response has arrived, whatever its status.
FetchResolves(ok, text) ==
    /\ AppJs.request = "pending"
    /\ AppJs' = [AppJs EXCEPT !.request = "response",
                              !.response = [ok |-> ok, body |-> text]]
    /\ UNCHANGED shop

\* await fetch(...) rejects (network failure): fetchData ends with an
\* unhandled rejection.
FetchRejects ==
    /\ AppJs.request = "pending"
    /\ AppJs' = [AppJs EXCEPT !.request = "failed"]
    /\ UNCHANGED shop

\* await response.json() settles.  If it resolves: setData(result) and
\* localStorage.setItem('data', JSON.stringify(result)); if it rejects,
\* fetchData ends with an unhandled rejection.  response.ok is not read.
fetchDataAfterResponse(app) ==
    LET result == JSON_parse(app.response.body) IN
    IF result.ok
    THEN [app EXCEPT !.request = "done",
                     !.data = result.val,
                     !.storedData = Stored(JSON_stringify(result.val))]
    ELSE [app EXCEPT !.request = "failed"]

BodyRead ==
    /\ AppJs.request = "response"
    /\ AppJs' = fetchDataAfterResponse(AppJs)
    /\ UNCHANGED shop

\* The page that renders the component is reloaded.
AppReload ==
    /\ AppJs' = AppMounted(AppJs.storedData)
    /\ UNCHANGED shop

NextApp ==
    \/ \E ok \in BOOLEAN, text \in Bodies : FetchResolves(ok, text)
    \/ FetchRejects
    \/ BodyRead
    \/ AppReload

\* The page of src/src/App.js is opened on a browser whose 'data' key holds
\* any of StoredValues; the shop is not touched.
InitApp ==
    /\ server = 1
    /\ Mounted(EmptyStorage)
    /\ \E storedData \in StoredValues : AppJs = AppMounted(storedData)

SpecApp == InitApp /\ [][NextApp]_vars

\* ================================================================ claims
Pref(id) == PrefState(likedProducts, dislikedProducts, id)

\* The identifiers an array holds.
Held(arr) == {arr[i] : i \in 1..Len(arr)}

\* C1: in every state reachable from a first start on empty storage by
\* toggles, reloads and the other events, no identifier is in both
\* likedProducts and dislikedProducts.
C1_MutualExclusivity == Held(likedProducts) \cap Held(dislikedProducts) = {}

\* An instance restored from storage holds a liked and a disliked identifier.
C1_Witness ==
    /\ found = [k \in Keys |-> "json"]
    /\ likedProducts # <<>>
    /\ dislikedProducts # <<>>

\* The transitions of the two triggers of the per-identifier state machine.
LikeTransition(state) ==
    CASE state = "NEUTRAL" -> "LIKED"
      [] state = "LIKED" -> "NEUTRAL"
      [] state = "DISLIKED" -> "LIKED"
      [] OTHER -> "UNSPECIFIED"

DislikeTransition(state) ==
    CASE state = "NEUTRAL" -> "DISLIKED"
      [] state = "DISLIKED" -> "NEUTRAL"
      [] state = "LIKED" -> "DISLIKED"
      [] OTHER -> "UNSPECIFIED"

\* C2: every toggleLike(id) step takes id from NEUTRAL to LIKED, from LIKED
\* to NEUTRAL and from DISLIKED to LIKED, and from nowhere else to anywhere
\* else.
C2_ToggleLikeTransitions ==
    [][\A id \in Ids :
         ToggleLike(id) =>
           PrefState(likedProducts', dislikedProducts', id) = LikeTransition(Pref(id))]_vars

\* toggleLike has just moved a disliked identifier to liked.
C2_Witness ==
    /\ lastCall.op = "toggleLike"
    /\ lastCall.before = "DISLIKED"
    /\ Pref(lastCall.id) = "LIKED"

\* C3: every toggleDislike(id) step takes id from NEUTRAL to DISLIKED, from
\* DISLIKED to NEUTRAL and from LIKED to DISLIKED, and from nowhere else to
\* anywhere else.
C3_ToggleDislikeTransitions ==
    [][\A id \in Ids :
         ToggleDislike(id) =>
           PrefState(likedProducts', dislikedProducts', id) = DislikeTransition(Pref(id))]_vars

\* toggleDislike has just moved a liked identifier to disliked.
C3_Witness ==
    /\ lastCall.op = "toggleDislike"
    /\ lastCall.before = "LIKED"
    /\ Pref(lastCall.id) = "DISLIKED"

\* Two consecutive toggle calls on one identifier have been made: first, then
\* second.
Consecutive(first, second) == lastCall.prior = first /\ lastCall.op = second

\* C4 as stated: after toggleLike(id) and toggleLike(id) again, id is in the
\* state it was in before the two calls, whichever of NEUTRAL, LIKED and
\* DISLIKED that was.
C4_Original ==
    Consecutive("toggleLike", "toggleLike") => Pref(lastCall.id) = lastCall.priorBefore

\* C4 as amended: after toggleLike(id) and toggleLike(id) again, an id that
\* was NEUTRAL or LIKED is in the state it was in, and an id that was
\* DISLIKED is NEUTRAL.
C4_DoubleToggle ==
    Consecutive("toggleLike", "toggleLike") =>
      Pref(lastCall.id) = (IF lastCall.priorBefore = "DISLIKED" THEN "NEUTRAL"
                           ELSE lastCall.priorBefore)

\* A liked identifier was toggled twice and is liked again.
C4_Witness ==
    /\ Consecutive("toggleLike", "toggleLike")
    /\ lastCall.priorBefore = "LIKED"
    /\ Pref(lastCall.id) = "LIKED"

\* C5: after toggleDislike(id) then toggleLike(id) on an id that was not
\* liked, id is in likedProducts and not in dislikedProducts.
C5_DislikeThenLike ==
    (Consecutive("toggleDislike", "toggleLike")
       /\ lastCall.priorBefore \in {"NEUTRAL", "DISLIKED"}) =>
      (includes(likedProducts, lastCall.id) /\ ~includes(dislikedProducts, lastCall.id))

\* A neutral identifier was disliked, then liked.
C5_Witness ==
    /\ Consecutive("toggleDislike", "toggleLike")
    /\ lastCall.priorBefore = "NEUTRAL"
    /\ lastCall.before = "DISLIKED"
    /\ includes(likedProducts, lastCall.id)

\* C6: a reload restores exactly the two arrays the instance held.
C6_ReloadRoundTrip ==
    [][Reload => /\ ~crashed'
                 /\ likedProducts' = likedProducts
                 /\ dislikedProducts' = dislikedProducts]_vars

\* A fresh instance holds two liked identifiers, restored in their order.
C6_Witness ==
    /\ found = [k \in Keys |-> "json"]
    /\ lastCall = NoCall
    /\ Len(likedProducts) = 2
    /\ likedProducts[1] > likedProducts[2]

\* The array a key's initializer restores (the sets of a mounted instance).
SetOf(k) == IF k = "likedProducts" THEN likedProducts ELSE dislikedProducts

\* C7 as stated: a key holding a value that is present but is no encoded array
\* of identifiers leaves its set empty and the application running.
C7_MalformedRecovered ==
    \A k \in Keys :
      found[k] \in {"empty", "garbage"} => (~crashed /\ SetOf(k) = <<>>)

\* C8: in an instance that has mounted, a key that held no value left its set
\* empty, whatever the other key held.
C8_AbsentIsEmpty ==
    \A k \in Keys : (found[k] = "absent" /\ ~crashed) => SetOf(k) = <<>>

\* The disliked key was absent and the liked key held an identifier.
C8_Witness ==
    /\ ~crashed
    /\ found["dislikedProducts"] = "absent"
    /\ found["likedProducts"] = "json"
    /\ likedProducts # <<>>
    /\ dislikedProducts = <<>>

\* C9: between any two events of a mounted instance each storage key holds
\* the encoding of the array in memory.
C9_StorageInStep ==
    ~crashed =>
      \A k \in Keys :
        /\ localStorage[k].present
        /\ JSON_parse(localStorage[k].text) = [ok |-> TRUE, val |-> SetOf(k)]

\* A toggleDislike has just changed both arrays.
C9_Witness ==
    /\ lastCall.op = "toggleDislike"
    /\ lastCall.before = "LIKED"
    /\ dislikedProducts # <<>>
    /\ localStorage["dislikedProducts"] = Stored(JSON_stringify(dislikedProducts))

\* C10: while loading no catalog data is held; once loading is over without
\* an error both requests have answered and products, categories and the
\* unfiltered display list are what the service returned.
C10_LoaderAtomicity ==
    ~crashed =>
      /\ loading => (products = <<>> /\ categories = <<>> /\ filteredProducts = <<>>)
      /\ (~loading /\ error = NoError) =>
           /\ reqProducts = "ok" /\ reqCategories = "ok"
           /\ products = Catalogs[server].products /\ products # <<>>
           /\ categories = Catalogs[server].categories /\ categories # <<>>
           /\ currentFilter = "all" => filteredProducts = products

\* The load has completed: both lists are populated.
C10_Witness ==
    /\ ~loading /\ error = NoError
    /\ products # <<>> /\ categories # <<>> /\ filteredProducts = products

\* A request that ended without usable data: a network failure, a non-success
\* status, or a body that is not JSON.
Failed(r) == r \in {"netfail", "notok", "badbody"}

\* C11: once fetchData has ended with a failed request, loading is false, error
\* holds a non-empty message, and products, categories and filteredProducts
\* are empty.
C11_LoaderFailure ==
    (~crashed /\ ~fetching /\ (Failed(reqProducts) \/ Failed(reqCategories))) =>
      /\ ~loading
      /\ error \in {MsgStatus, MsgNetwork, MsgBody}
      /\ error # ""
      /\ products = <<>> /\ categories = <<>> /\ filteredProducts = <<>>

\* The products request succeeded and the categories request answered with a
\* non-success status.
C11_Witness ==
    /\ reqProducts = "ok" /\ reqCategories = "notok"
    /\ ~loading /\ error = MsgStatus

\* C12 as stated: in every error state (a failed load, or a first render
\* that threw on a malformed key) the instance a full reload mounts is up and
\* has issued both catalog requests.
C12_ReloadRetries ==
    (crashed \/ (~loading /\ error # NoError)) =>
      LET f == FreshInstance(localStorage) IN ~f.crashed /\ f.request = "pending"

\* Where a product stands in a catalog (a catalog lists a product once).
PositionIn(catalog, p) == CHOOSE i \in 1..Len(catalog) : catalog[i] = p

\* list holds exactly the products of catalog whose category is f, each once,
\* in the order the catalog has them.
ExactlyCategory(list, catalog, f) ==
    /\ \A i \in 1..Len(list) : list[i].category = f /\ list[i] \in Elements(catalog)
    /\ \A p \in Elements(catalog) : p.category = f => p \in Elements(list)
    /\ Len(list) = Cardinality({i \in 1..Len(catalog) : catalog[i].category = f})
    /\ \A i, j \in 1..Len(list) :
         i < j => PositionIn(catalog, list[i]) < PositionIn(catalog, list[j])

\* list is what filter f displays of catalog.
DisplayOf(list, catalog, f) ==
    IF f = "all" THEN list = catalog ELSE ExactlyCategory(list, catalog, f)

\* C13: a filterProducts('all') step displays the catalog unchanged, and a
\* filterProducts(f) step displays exactly the products of category f, none
\* missing, none extra, in catalog order.
C13_FilterResult ==
    [][\A c \in {"all"} \cup Elements(categories) :
         Filter(c) => DisplayOf(filteredProducts', products, c)]_vars

\* A category filter displays two products of the catalog and leaves one out.
C13_Witness ==
    /\ currentView = "products"
    /\ currentFilter = "a"
    /\ Len(products) = 3
    /\ filteredProducts = << products[1], products[3] >>

NonDetailViews == {"home", "products", "favorites"}

\* C14 as stated: navigating to a non-detail view sets the view and leaves the
\* selected product as it was.
C14_Original ==
    [][\A v \in NonDetailViews :
         Navigate(v) => (currentView' = v /\ selectedProduct' = selectedProduct)]_vars

\* C14 as amended: every navigation sets the view and the selected product:
\* to the given product for the detail view, to null for a non-detail view.
C14_NavigateSetsBoth ==
    [][/\ \A v \in NonDetailViews :
            Navigate(v) => (currentView' = v /\ selectedProduct' = NullProduct)
       /\ \A c \in Elements(categories) :
            CategoryCard(c) => (currentView' = "products" /\ selectedProduct' = NullProduct)
       /\ \A p \in Elements(products) :
            ViewDetails(p) => (currentView' = "detail" /\ selectedProduct' = p)]_vars

\* navigateTo('detail', product) has acted: the detail view is shown and holds
\* a liked product of the catalog.
C14_Witness ==
    /\ currentView = "detail"
    /\ selectedProduct \in Elements(favoriteProducts)

\* The catalog has a product with this identifier.
CatalogHas(id) == \E p \in Elements(products) : p.id = id

\* The favorites view shows a product with this identifier.
InFavorites(id) == \E p \in Elements(favoriteProducts) : p.id = id

\* C15: for a product of the loaded catalog, toggleLike from a non-liked state
\* puts it in the favorites view; toggleDislike of a liked product takes it
\* out of the favorites view and makes it disliked; and a reload, and the
\* catalog load that follows it, leave a disliked product disliked and out of
\* the favorites view.
C15_FavoritesFollow ==
    [][\A id \in Ids :
         /\ (ToggleLike(id) /\ Pref(id) # "LIKED" /\ CatalogHas(id)) => InFavorites(id)'
         /\ (ToggleDislike(id) /\ Pref(id) = "LIKED") =>
              (~InFavorites(id)' /\ Pref(id)' = "DISLIKED")
         /\ ((Reload \/ \E o \in Outcomes : ProductsResponse(o) \/ CategoriesResponse(o))
               /\ Pref(id) = "DISLIKED") =>
              (~InFavorites(id)' /\ Pref(id)' = "DISLIKED")]_vars

\* A product of the catalog was liked from neutral, then disliked: it is
\* disliked and the favorites view does not show it.
C15_Witness ==
    /\ Consecutive("toggleLike", "toggleDislike")
    /\ lastCall.priorBefore = "NEUTRAL"
    /\ lastCall.before = "LIKED"
    /\ CatalogHas(lastCall.id)
    /\ ~InFavorites(lastCall.id)
    /\ Pref(lastCall.id) = "DISLIKED"

HistoryKey == "myshop_history"

\* C17 as stated: while a product's detail view is open, localStorage holds a
\* browsing history.
C17_VisitRecorded == currentView = "detail" => HistoryKey \in DOMAIN localStorage

\* C18: whatever the two arrays held, the identifier of the last toggle call
\* is in at most one of them.
C18_ToggleSeparates == lastCall.op # "none" => Pref(lastCall.id) # "BOTH"

\* An identifier restored into both arrays was toggled and is in one.
C18_Witness ==
    /\ lastCall.op = "toggleLike"
    /\ lastCall.before = "BOTH"
    /\ Pref(lastCall.id) = "DISLIKED"

\* C19: in every state filteredProducts is the catalog when currentFilter is
\* 'all', and otherwise exactly the catalog's products of category
\* currentFilter.
C19_DisplayedIsFilterOfCatalog == DisplayOf(filteredProducts, products, currentFilter)

\* A category filter is in force on the home view and hides part of the
\* catalog.
C19_Witness ==
    /\ currentView = "home"
    /\ currentFilter # "all"
    /\ timers = <<>>
    /\ filteredProducts # <<>>
    /\ Len(filteredProducts) < Len(products)

\* The preferences in memory and in storage.
preferences == << likedProducts, dislikedProducts, localStorage >>

\* C20: navigation, filtering, the delayed category filter and the answers of
\* the two catalog requests leave likedProducts, dislikedProducts and
\* localStorage unchanged.
C20_OnlyTogglesMutate ==
    [][(\/ \E v \in Views : Navigate(v)
        \/ \E p \in Elements(products) : ViewDetails(p)
        \/ \E c \in {"all"} \cup Elements(categories) : Filter(c)
        \/ \E c \in Elements(categories) : CategoryCard(c)
        \/ TimerFires
        \/ \E o \in Outcomes : ProductsResponse(o) \/ CategoriesResponse(o))
       => UNCHANGED preferences]_vars

\* An instance in which no toggle was called has loaded, filtered and opened
\* a detail view, and holds the preferences it restored.
C20_Witness ==
    /\ lastCall = NoCall
    /\ ~loading
    /\ currentView = "detail"
    /\ currentFilter # "all"
    /\ likedProducts # <<>>
    /\ localStorage["likedProducts"] = Stored(JSON_stringify(likedProducts))

\* What a toggle has no business with: the catalog, the filter, the displayed
\* list, the active view and the selected product.
catalogAndView == << products, categories, currentFilter, filteredProducts,
                     currentView, selectedProduct >>

\* C21: a toggleLike(id) or toggleDislike(id) step leaves the preference state
\* of every other identifier as it was, and leaves the catalog, the filter,
\* the displayed list, the active view and the selected product unchanged.
C21_TogglesPerIdentifier ==
    [][\A id \in Ids :
         (ToggleLike(id) \/ ToggleDislike(id)) =>
           /\ \A j \in Ids \ {id} : Pref(j)' = Pref(j)
           /\ UNCHANGED catalogAndView]_vars

\* A liked identifier was disliked from a filtered detail view while another
\* identifier is liked.
C21_Witness ==
    /\ lastCall.op = "toggleDislike"
    /\ lastCall.before = "LIKED"
    /\ \E j \in Ids \ {lastCall.id} : Pref(j) = "LIKED"
    /\ currentView = "detail"
    /\ currentFilter # "all"

\* A catalog request is issued in this step.
Issued ==
    \/ reqProducts # "pending" /\ reqProducts' = "pending"
    \/ reqCategories # "pending" /\ reqCategories' = "pending"
    \/ ~fetching /\ fetching'

\* What the loader writes.
loaderState == << products, categories, filteredProducts, loading, error >>

\* C22: while fetchData is in flight the page shows the spinner and no error,
\* so the retry button is offered only when loading is over and error is set
\* and never while the instance's load is in flight; requests are issued only
\* by a mount that follows a reload; and a request answering after fetchData
\* has ended writes nothing.
C22_OneLoadInFlight ==
    /\ [](fetching => (loading /\ error = NoError))
    /\ [][Retry => (~loading /\ error # NoError /\ ~fetching)]_vars
    /\ [][Issued => Reload]_vars
    /\ [][(~fetching /\ \E o \in Outcomes : ProductsResponse(o) \/ CategoriesResponse(o))
            => UNCHANGED loaderState]_vars

\* The load ended on a network failure of the products request while the
\* categories request is unanswered: the retry button is shown.
C22_Witness ==
    /\ ~fetching /\ ~loading /\ error = MsgNetwork
    /\ reqProducts = "netfail" /\ reqCategories = "pending"

\* The load is over: the error is set or the catalog is held.
LoadOver == ~loading /\ (error # NoError \/ products = Catalogs[server].products)

\* C23: when both requests are eventually answered, every run in which the
\* page is not reloaded for ever gets to loading = false with the error set
\* or the catalog loaded and stays there; and loading goes back to true only
\* by a reload, which starts another page instance.
C23_LoadingTerminates ==
    /\ ([]<><<Reload>>_vars \/ <>[]LoadOver)
    /\ [][(~loading /\ loading') => Reload]_vars

\* An instance whose load ended without an error is in use.
C23_Witness ==
    /\ ~loading /\ error = NoError
    /\ reqProducts = "ok" /\ reqCategories = "ok"
    /\ products = Catalogs[server].products
    /\ lastCall.op # "none"

\* C24: a click on a category card switches to the products view at once,
\* leaves the filter as it is and leaves a timer for the category pending; a
\* pending timer goes away only by firing (or with the page, on a reload); and
\* the step in which it fires sets currentFilter to its category and displays
\* exactly that category's products of the catalog, whatever the view and the
\* filter were by then.
C24_DelayedCategoryFilter ==
    [][/\ \A c \in Elements(categories) :
            CategoryCard(c) =>
              /\ currentView' = "products"
              /\ UNCHANGED << currentFilter, filteredProducts >>
              /\ Len(timers') = Len(timers) + 1
              /\ timers'[Len(timers')].category = c
       /\ Len(timers') < Len(timers) => (TimerFires \/ Reload)
       /\ TimerFires =>
            /\ currentFilter' = Head(timers).category
            /\ ExactlyCategory(filteredProducts', products, Head(timers).category)]_vars

\* A category card was clicked and its timer is pending, while the filter of
\* another category is in force and the favorites view is open.
C24_Witness ==
    /\ timers # <<>>
    /\ currentView = "favorites"
    /\ currentFilter \notin {"all", Head(timers).category}
    /\ filteredProducts # <<>>

\* C25: in every state currentView is one of the four views, and while it is
\* 'detail' a product is selected.
C25_DetailHasProduct ==
    /\ currentView \in {"home", "products", "favorites", "detail"}
    /\ currentView = "detail" => selectedProduct # NullProduct

\* The detail view of a product of the catalog is open, reached from a list
\* that showed it, and the product has since been disliked.
C25_Witness ==
    /\ currentView = "detail"
    /\ selectedProduct \in Elements(products)
    /\ lastCall.op = "toggleDislike"
    /\ lastCall.id = selectedProduct.id
    /\ Pref(selectedProduct.id) = "DISLIKED"

\* No identifier is in the array twice.
NoDuplicates(arr) == \A i, j \in 1..Len(arr) : arr[i] = arr[j] => i = j

\* What a toggle of id makes of one array: the other identifiers stay in
\* their order, and an id that was not in it and now is stands at the end.
OrderKept(before, after, id) ==
    /\ without(after, id) = without(before, id)
    /\ (includes(after, id) /\ ~includes(before, id)) => after = Append(before, id)

\* C26: likedProducts and dislikedProducts, restored without duplicates, never
\* hold an identifier twice, and a toggle appends a new identifier at the end
\* and keeps the order of the others.
C26_NoDuplicates ==
    /\ [](NoDuplicates(likedProducts) /\ NoDuplicates(dislikedProducts))
    /\ [][\A id \in Ids :
            (ToggleLike(id) \/ ToggleDislike(id)) =>
              /\ OrderKept(likedProducts, likedProducts', id)
              /\ OrderKept(dislikedProducts, dislikedProducts', id)]_vars

\* An identifier was liked after a greater one: it stands last.
C26_Witness ==
    /\ lastCall.op = "toggleLike"
    /\ lastCall.before # "LIKED"
    /\ Len(likedProducts) = 2
    /\ likedProducts[2] = lastCall.id
    /\ likedProducts[1] > likedProducts[2]

\* C27 as stated: with two tabs toggling on one localStorage, what
\* localStorage holds after every write restores, in a fresh instance, to two
\* arrays with no identifier in both.
C27_SharedStorageDisjoint ==
    LET f == FreshInstance(localStorage) IN
    Held(f.likedProducts) \cap Held(f.dislikedProducts) = {}

\* C28 as stated: while the fetch is pending data is what the 'data' key held
\* on mount; a fetch that succeeds (a success response with a JSON body)
\* makes data the fetched result and the 'data' key its encoding; a fetch
\* that fails (a rejection, a non-success response, a body that is not JSON)
\* leaves data and the 'data' key as they were.
C28_FetchSupersedesCache ==
    /\ [](AppJs.request = "pending" => AppJs.data = restore(AppJs.storedData).val)
    /\ [][FetchRejects =>
            (AppJs'.data = AppJs.data /\ AppJs'.storedData = AppJs.storedData)]_vars
    /\ [][BodyRead =>
            LET result == JSON_parse(AppJs.response.body) IN
            IF AppJs.response.ok /\ result.ok
            THEN /\ AppJs'.data = result.val
                 /\ restore(AppJs'.storedData) = [ok |-> TRUE, val |-> result.val]
            ELSE /\ AppJs'.data = AppJs.data
                 /\ AppJs'.storedData = AppJs.storedData]_vars

====
